---- MODULE Spec2Model ----
(***************************************************************************)
(* Model of the rename tool (src/src/lib.rs, src/src/main.rs).             *)
(*                                                                         *)
(* Text is modelled as a sequence of one-character strings, so that        *)
(* starts_with, split(".") and format! are computed character by           *)
(* character.  A csv::StringRecord is a sequence of such texts; field i of *)
(* the record (zero-indexed, as in row.get(i)) is element i+1.             *)
(* A HashMap<String, String> is a function from old name to new name.      *)
(* The directory is the set of its entry names.                            *)
(***************************************************************************)
EXTENDS Naturals, Sequences, FiniteSets

(***************************************************************************)
(* Bounds of the model.                                                    *)
(***************************************************************************)
\* Largest number of lines in the data file.
MaxLines == 3

\* Largest number of entries in the target directory before the run.
MaxEntries == 3

(***************************************************************************)
(* Program constants.                                                      *)
(***************************************************************************)
\* row.get(0): the lot number.
LotIdx == 0

\* row.get(8): the inventory number.
InvIdx == 8

\* args.len() != 3: the program name and two positional arguments.
ExpectedArgs == 3

(***************************************************************************)
(* The universe of inputs.                                                 *)
(***************************************************************************)
E == <<>>

\* A well-formed line of 9 tab-separated fields: lot number first,
\* inventory number last.
Row(lot, inv) == <<lot, E, E, E, E, E, E, E, inv>>

R1 == Row(<<"1">>, <<"7">>)

R2 == Row(<<"2">>, <<"7", "a">>)

R3 == Row(<<"2">>, <<"1">>)

\* A line with a single field: field 8 is absent.
ShortRow == << <<"1">> >>

\* A line of 9 fields whose first field is not valid UTF-8 ("?" stands for
\* the offending byte): the reader cannot turn it into a StringRecord.
BadLine == Row(<<"?">>, <<"7">>)

LineSet == {R1, R2, R3, ShortRow, BadLine}

N1 == <<"7", ".", "0", "7", ".", "j", "p", "g">>

N2 == <<"7", "a", ".", "0", "7", ".", "p", "n", "g">>

N3 == <<"7", "A", ".", "2", ".", "j", "p", "g">>

N4 == <<"7">>

N5 == <<"1", "_", "0", "7", ".", "j", "p", "g">>

N6 == <<"0", "7", ".", "1", ".", "j", "p", "g">>

NameSet == {N1, N2, N3, N4, N5, N6}

\* Argument vectors: the program name plus one, two or three arguments.
ArgLens == {2, 3, 4}

SeqsUpTo(S, n) == UNION {[1..k -> S] : k \in 0..n}

\* All orders in which the elements of S can be enumerated.
Orders(S) == {p \in [1..Cardinality(S) -> S] : \A i, j \in 1..Cardinality(S) : p[i] = p[j] => i = j}

(***************************************************************************)
(* Text helpers (std).                                                     *)
(***************************************************************************)
\* ASCII lower-casing of one character of the alphabet in use.
to_lower(c) == IF c = "A" THEN "a" ELSE c

\* Variant of starts_with: the comparison ignores letter case.
starts_with_ignore_case(s, p) ==
    Len(p) <= Len(s) /\ \A i \in 1..Len(p) : to_lower(s[i]) = to_lower(p[i])

\* str::starts_with
starts_with(s, p) == Len(p) <= Len(s) /\ SubSeq(s, 1, Len(p)) = p

\* str::split("."): the segments between the periods, at least one.
RECURSIVE split(_)
split(s) ==
    IF \A i \in 1..Len(s) : s[i] # "."
    THEN <<s>>
    ELSE LET i == CHOOSE k \in 1..Len(s) : s[k] = "." /\ \A m \in 1..(k-1) : s[m] # "."
         IN <<SubSeq(s, 1, i - 1)>> \o split(SubSeq(s, i + 1, Len(s)))

\* Option / possibly panicking result.
Some(v) == [ok |-> TRUE, val |-> v]

None == [ok |-> FALSE, val |-> <<>>]

\* StringRecord::get(i)
get(row, i) == IF i < Len(row) THEN Some(row[i + 1]) ELSE None

(***************************************************************************)
(* lib.rs: the planner.                                                    *)
(***************************************************************************)
\* Text of a number without its leading zeros.
RECURSIVE strip_zeros(_)
strip_zeros(t) == IF Len(t) > 1 /\ t[1] = "0" THEN strip_zeros(Tail(t)) ELSE t

\* Variant of compose_new_name: the suffix is reformatted as a number.
compose_new_name_numeric(lot_number, suffix) ==
    lot_number \o <<"_">> \o strip_zeros(suffix) \o <<".", "j", "p", "g">>

\* compose_new_name: format!("{}_{}.jpg", lot_number, suffix)
compose_new_name(lot_number, suffix) ==
    lot_number \o <<"_">> \o suffix \o <<".", "j", "p", "g">>

\* Variant of extract_file_suffix: a name without a second segment gets an
\* empty suffix instead of a panic.
extract_file_suffix_lenient(file_name) ==
    LET name_parts_between_periods == split(file_name)
    IN IF Len(name_parts_between_periods) >= 2
       THEN Some(name_parts_between_periods[2])
       ELSE Some(<<>>)

\* extract_file_suffix: name_parts_between_periods[1]; None stands for the
\* index-out-of-bounds panic.
extract_file_suffix(file_name) ==
    LET name_parts_between_periods == split(file_name)
    IN IF Len(name_parts_between_periods) >= 2
       THEN Some(name_parts_between_periods[2])
       ELSE None

\* Variant of filter_object_files: object_id may occur anywhere in the name.
filter_object_files_contains(files, object_id) ==
    SelectSeq(files, LAMBDA element :
        \E k \in 1..(Len(element) + 1) :
            starts_with(SubSeq(element, k, Len(element)), object_id))

\* filter_object_files: the files prefixed with object_id, in list order.
filter_object_files(files, object_id) ==
    SelectSeq(files, LAMBDA element : starts_with(element, object_id))

EmptyMap == [k \in {} |-> <<>>]

\* Variant of insert: an existing entry is kept (entry().or_insert()).
insert_if_absent(m, k, v) == [x \in (DOMAIN m) \cup {k} |-> IF x \in DOMAIN m THEN m[x] ELSE v]

\* HashMap::insert: overwrites a prior entry for the same key.
insert(m, k, v) == [x \in (DOMAIN m) \cup {k} |-> IF x = k THEN v ELSE m[x]]

\* The inner loop of determine_renamings over one row's object files.
RECURSIVE insert_object_files(_, _, _)
insert_object_files(renamings0, lot_number, object_files) ==
    IF object_files = <<>>
    THEN Some(renamings0)
    ELSE LET object_file == Head(object_files)
             suffix == extract_file_suffix(object_file)
         IN IF ~suffix.ok
            THEN None
            ELSE insert_object_files(
                     insert(renamings0, object_file, compose_new_name(lot_number, suffix.val)),
                     lot_number, Tail(object_files))

\* The loop of determine_renamings over the rows; None stands for a panic
\* (expect on a missing field, or the suffix index out of bounds).
RECURSIVE determine_renamings_from(_, _, _)
determine_renamings_from(renamings0, csv_rows0, files) ==
    IF csv_rows0 = <<>>
    THEN Some(renamings0)
    ELSE LET row == Head(csv_rows0)
             lot_number == get(row, LotIdx)
             inventory_number == get(row, InvIdx)
         IN IF ~lot_number.ok \/ ~inventory_number.ok
            THEN None
            ELSE LET object_files == filter_object_files(files, inventory_number.val)
                     after == insert_object_files(renamings0, lot_number.val, object_files)
                 IN IF ~after.ok
                    THEN None
                    ELSE determine_renamings_from(after.val, Tail(csv_rows0), files)

determine_renamings(rows, files) == determine_renamings_from(EmptyMap, rows, files)

(***************************************************************************)
(* lib.rs: the record reader.                                              *)
(***************************************************************************)
\* What reader.records() yields for the lines of an opened file, or None
\* for an error.  The builder is left at the csv crate's defaults apart
\* from the delimiter: has_headers is on, so the first line is consumed as
\* the header (as bytes, never validated) and is not yielded; records are
\* not flexible, so a line whose number of fields differs from the first
\* line's is an error, and so is a yielded line that is not valid UTF-8.
read_csv(file_lines) ==
    IF \/ \E i \in 1..Len(file_lines) : Len(file_lines[i]) # Len(file_lines[1])
       \/ \E i \in 2..Len(file_lines) : file_lines[i] = BadLine
    THEN None
    ELSE IF file_lines = <<>> THEN Some(<<>>) ELSE Some(Tail(file_lines))

(***************************************************************************)
(* lib.rs: the renamer and the argument check.                             *)
(***************************************************************************)
\* fs::rename(old_path, new_path) inside directory d: fails when the source
\* is missing or the operating system refuses (os_ok = FALSE); otherwise
\* the entry takes the new name, replacing an entry of that name.
fs_rename(d, old_name, new_name, os_ok) ==
    IF old_name \in d /\ os_ok
    THEN [ok |-> TRUE, dir |-> (d \ {old_name}) \cup {new_name}]
    ELSE [ok |-> FALSE, dir |-> d]

\* Variant of from_args: validate_dir is not consulted.
from_args_unchecked(n_args, is_dir) ==
    IF n_args # ExpectedArgs
    THEN "incorrect number of arguments"
    ELSE "ok"

\* Config::from_args: the argument count, then validate_dir.
from_args(n_args, is_dir) ==
    IF n_args # ExpectedArgs
    THEN "incorrect number of arguments"
    ELSE IF ~is_dir
         THEN "not a directory"
         ELSE "ok"

(***************************************************************************)
(* State.                                                                  *)
(***************************************************************************)
VARIABLES
    pc,          \* position of the single thread of control
    args_len,    \* env::args().len()
    dir_is_dir,  \* whether args[2] names an existing directory
    lines,       \* the lines of the data file
    dir0,        \* the directory's entry names before the run
    dir,         \* the directory's entry names now
    file_names,  \* run: let file_names = list_files(..)
    listed,      \* the set of names list_files returned
    csv_rows,    \* run: let csv_rows = read_csv(..)?
    renamings,   \* run: let renamings = determine_renamings(..)
    remaining,   \* keys of renamings the loop of rename_all_files has not visited
    n_renamed,   \* renames performed
    n_attempted, \* calls of fs::rename
    n_os_errors, \* calls of fs::rename that returned an error
    steps,       \* which stages of run were entered
    failure,     \* why the process failed, "" while it has not
    exit_code    \* the process exit status once pc = "exit"

vars == <<pc, args_len, dir_is_dir, lines, dir0, dir, file_names, listed, csv_rows,
          renamings, remaining, n_renamed, n_attempted, n_os_errors, steps, failure, exit_code>>

Init ==
    /\ pc = "main"
    /\ args_len \in ArgLens
    /\ dir_is_dir \in BOOLEAN
    /\ lines \in SeqsUpTo(LineSet, MaxLines)
    /\ dir0 \in {d \in SUBSET NameSet : Cardinality(d) <= MaxEntries}
    /\ dir = dir0
    /\ file_names = <<>>
    /\ listed = {}
    /\ csv_rows = <<>>
    /\ renamings = EmptyMap
    /\ remaining = {}
    /\ n_renamed = 0
    /\ n_attempted = 0
    /\ n_os_errors = 0
    /\ steps = {}
    /\ failure = ""
    /\ exit_code = 0

(***************************************************************************)
(* main.rs: main, up to the call of run.                                   *)
(***************************************************************************)
Main ==
    /\ pc = "main"
    /\ LET r == from_args(args_len, dir_is_dir)
       IN IF r = "ok"
          THEN /\ pc' = "list_files"
               /\ UNCHANGED <<failure, exit_code>>
          ELSE /\ pc' = "exit"
               /\ failure' = r
               /\ exit_code' = 1
    /\ UNCHANGED <<args_len, dir_is_dir, lines, dir0, dir, file_names, listed, csv_rows,
                   renamings, remaining, n_renamed, n_attempted, n_os_errors, steps>>

\* run, line 6: list_files.  read_dir may fail and single entries may be
\* unreadable; what is readable is pushed in the order the system gives.
ListFiles ==
    /\ pc = "list_files"
    /\ \E readable \in SUBSET dir :
         \E order \in Orders(readable) :
             /\ file_names' = order
             /\ listed' = readable
    /\ steps' = steps \cup {"list"}
    /\ pc' = "read_csv"
    /\ UNCHANGED <<args_len, dir_is_dir, lines, dir0, dir, csv_rows, renamings, remaining,
                   n_renamed, n_attempted, n_os_errors, failure, exit_code>>

\* run, line 8: read_csv(..)?  The file may fail to open.
ReadCsv ==
    /\ pc = "read_csv"
    /\ steps' = steps \cup {"open"}
    /\ \E opens \in BOOLEAN :
         LET r == read_csv(lines)
         IN IF ~opens
            THEN /\ pc' = "exit"
                 /\ failure' = "open"
                 /\ exit_code' = 1
                 /\ UNCHANGED csv_rows
            ELSE IF ~r.ok
                 THEN /\ pc' = "exit"
                      /\ failure' = "parse"
                      /\ exit_code' = 1
                      /\ UNCHANGED csv_rows
                 ELSE /\ pc' = "determine_renamings"
                      /\ csv_rows' = r.val
                      /\ UNCHANGED <<failure, exit_code>>
    /\ UNCHANGED <<args_len, dir_is_dir, lines, dir0, dir, file_names, listed, renamings,
                   remaining, n_renamed, n_attempted, n_os_errors>>

\* run, line 10: determine_renamings(csv_rows, file_names).  file_names is
\* moved into the call; a panic ends the process with status 101.
DetermineRenamings ==
    /\ pc = "determine_renamings"
    /\ steps' = steps \cup {"plan"}
    /\ LET r == determine_renamings(csv_rows, file_names)
       IN IF r.ok
          THEN /\ renamings' = r.val
               /\ remaining' = DOMAIN r.val
               /\ pc' = "rename_all_files"
               /\ UNCHANGED <<failure, exit_code>>
          ELSE /\ pc' = "exit"
               /\ failure' = "panic"
               /\ exit_code' = 101
               /\ UNCHANGED <<renamings, remaining>>
    /\ file_names' = <<>>
    /\ UNCHANGED <<args_len, dir_is_dir, lines, dir0, dir, listed, csv_rows, n_renamed,
                   n_attempted, n_os_errors>>

\* Variant of rename_iteration: the result of fs::rename is dropped and the
\* loop goes on.
rename_iteration_continue(d, todo, old_name, new_name, os_ok) ==
    [ok |-> TRUE,
     dir |-> fs_rename(d, old_name, new_name, os_ok).dir,
     remaining |-> todo \ {old_name}]

\* rename_all_files, lines 66-73: what one iteration of the loop does for
\* the pair the iterator yields.  A failed rename returns the error at
\* once (the ? operator); nothing is undone.
rename_iteration(d, todo, old_name, new_name, os_ok) ==
    LET r == fs_rename(d, old_name, new_name, os_ok)
    IN IF r.ok
       THEN [ok |-> TRUE, dir |-> r.dir, remaining |-> todo \ {old_name}]
       ELSE [ok |-> FALSE, dir |-> r.dir, remaining |-> todo]

\* One iteration of the loop of rename_all_files.  The HashMap yields its
\* pairs in no particular order.
RenameNext ==
    /\ pc = "rename_all_files"
    /\ remaining # {}
    /\ \E old_name \in remaining :
         \E os_ok \in BOOLEAN :
             LET r == rename_iteration(dir, remaining, old_name, renamings[old_name], os_ok)
                 os == fs_rename(dir, old_name, renamings[old_name], os_ok)
             IN /\ n_os_errors' = n_os_errors + (IF os.ok THEN 0 ELSE 1)
                /\ dir' = r.dir
                /\ remaining' = r.remaining
                /\ IF r.ok
                   THEN /\ n_renamed' = n_renamed + 1
                        /\ UNCHANGED <<pc, failure, exit_code>>
                   ELSE /\ pc' = "exit"
                        /\ failure' = "rename"
                        /\ exit_code' = 1
                        /\ UNCHANGED n_renamed
    /\ n_attempted' = n_attempted + 1
    /\ steps' = steps \cup {"rename"}
    /\ UNCHANGED <<args_len, dir_is_dir, lines, dir0, file_names, listed, csv_rows, renamings>>

\* rename_all_files, line 75, and the return through run and main.
RenameDone ==
    /\ pc = "rename_all_files"
    /\ remaining = {}
    /\ pc' = "exit"
    /\ exit_code' = 0
    /\ UNCHANGED <<args_len, dir_is_dir, lines, dir0, dir, file_names, listed, csv_rows,
                   renamings, remaining, n_renamed, n_attempted, n_os_errors, steps, failure>>

Next == Main \/ ListFiles \/ ReadCsv \/ DetermineRenamings \/ RenameNext \/ RenameDone

Spec == Init /\ [][Next]_vars

(***************************************************************************)
(* Vocabulary of the properties, stated without the planner's operators.   *)
(***************************************************************************)
\* p is, character for character, the beginning of s.
IsPrefixOf(p, s) == Len(p) <= Len(s) /\ \A i \in 1..Len(p) : s[i] = p[i]

Periods(s) == {i \in 1..Len(s) : s[i] = "."}

Min(S) == CHOOSE x \in S : \A y \in S : x <= y

Max(S) == CHOOSE x \in S : \A y \in S : y <= x

\* The text after the first period of s, up to the next period or the end.
SecondSegment(s) ==
    LET first == Min(Periods(s))
        later == {j \in Periods(s) : j > first}
        stop == IF later = {} THEN Len(s) + 1 ELSE Min(later)
    IN [i \in 1..(stop - first - 1) |-> s[first + i]]

\* The row has field 0 and field 8.
HasFields(row) == Len(row) >= 9

\* The indices of the rows read whose inventory number is a prefix of f.
MatchingRows(f) ==
    {i \in 1..Len(csv_rows) : HasFields(csv_rows[i]) /\ IsPrefixOf(csv_rows[i][9], f)}

\* lot_suffix.jpg
ExpectedName(lot, f) == lot \o <<"_">> \o SecondSegment(f) \o <<".", "j", "p", "g">>

\* determine_renamings was called.
PlanAttempted == "plan" \in steps

\* determine_renamings returned a plan.
Planned == PlanAttempted /\ failure # "panic"

\* The run ended with exit status 0.
Succeeded == pc = "exit" /\ exit_code = 0

(***************************************************************************)
(* C1.  When every row read has fields 0 and 8 and every listed name has   *)
(* at least two period-delimited segments, the planner does not panic and  *)
(* every listed name that starts with the inventory number of some row is  *)
(* mapped to L_S.jpg, L the lot number of a row whose inventory number is  *)
(* a prefix of the name and S the name's second segment verbatim; the      *)
(* extension is .jpg whatever the original one.                            *)
(***************************************************************************)
C1_MatchedFilesGetLotSuffixJpg ==
    ( /\ PlanAttempted
      /\ \A i \in 1..Len(csv_rows) : HasFields(csv_rows[i])
      /\ \A f \in listed : Periods(f) # {} )
    => /\ failure # "panic"
       /\ \A f \in listed :
            MatchingRows(f) # {} =>
                /\ f \in DOMAIN renamings
                /\ \E i \in MatchingRows(f) :
                       renamings[f] = ExpectedName(csv_rows[i][1], f)

\* A .png file with suffix 07 has been planned to 1_07.jpg.
C1_Witness ==
    /\ PlanAttempted
    /\ \A f \in listed : Periods(f) # {}
    /\ N2 \in DOMAIN renamings
    /\ renamings[N2] = <<"1", "_", "0", "7", ".", "j", "p", "g">>

(***************************************************************************)
(* C2.  Last write wins: a name matched by the inventory numbers of two or *)
(* more rows has one entry in the plan, and its new name carries the lot   *)
(* number of the last matching row in row order, whatever the order of the *)
(* listing.                                                                *)
(***************************************************************************)
C2_LastMatchingRowWins ==
    Planned =>
        \A f \in listed :
            Cardinality(MatchingRows(f)) >= 2 =>
                /\ f \in DOMAIN renamings
                /\ renamings[f] = ExpectedName(csv_rows[Max(MatchingRows(f))][1], f)

\* Rows (lot 2, 7a) then (lot 1, 7) both match 7a.07.png; lot 1 is last.
C2_Witness ==
    /\ Planned
    /\ csv_rows = <<R2, R1>>
    /\ Cardinality(listed) = 2
    /\ N2 \in DOMAIN renamings
    /\ renamings[N2] = <<"1", "_", "0", "7", ".", "j", "p", "g">>

(***************************************************************************)
(* C3.  The keys of the plan are exactly the listed names that start with  *)
(* the exact text of some row's inventory number; a name that matches no   *)
(* row is not in the plan and is still an entry of the directory after a   *)
(* successful apply.                                                       *)
(***************************************************************************)
C3_PlanKeysAreThePrefixMatches ==
    Planned =>
        /\ DOMAIN renamings = {f \in listed : MatchingRows(f) # {}}
        /\ \A f \in dir0 :
               MatchingRows(f) = {} =>
                   /\ f \notin DOMAIN renamings
                   /\ Succeeded => f \in dir

\* 07.1.jpg and 7A.2.jpg next to row 7a resp. 7: renamed nothing of theirs.
C3_Witness ==
    /\ Succeeded
    /\ csv_rows = <<R2>>
    /\ dir0 = {N2, N3}
    /\ listed = dir0
    /\ n_renamed = 1
    /\ N3 \in dir

(***************************************************************************)
(* C4.  A successful apply performs len(plan) renames and leaves the       *)
(* number of directory entries as it was.                                  *)
(***************************************************************************)
C4_CountPreserved ==
    Succeeded =>
        /\ n_renamed = Cardinality(DOMAIN renamings)
        /\ Cardinality(dir) = Cardinality(dir0)

(***************************************************************************)
(* C5.  The reader has no header row: the rows returned are the lines of   *)
(* the file, all of them, in file order.                                   *)
(***************************************************************************)
C5_EveryLineIsARow ==
    pc = "determine_renamings" => csv_rows = lines

(***************************************************************************)
(* C6.  No rename before the whole plan is computed: when the read fails,  *)
(* or a row read lacks field 0 or 8, or a listed name matched by a row has *)
(* fewer than two segments, the run never reaches the renamer, no rename   *)
(* is attempted, the directory is as before and the exit status is not 0.  *)
(***************************************************************************)
C6_Problem ==
    \/ failure \in {"open", "parse"}
    \/ \E i \in 1..Len(csv_rows) : ~HasFields(csv_rows[i])
    \/ \E f \in listed : MatchingRows(f) # {} /\ Periods(f) = {}

C6_NoRenameUnlessPlanComplete ==
    C6_Problem =>
        /\ pc # "rename_all_files"
        /\ "rename" \notin steps
        /\ n_attempted = 0
        /\ dir = dir0
        /\ pc = "exit" => exit_code # 0

\* The name 7 (no period) is matched next to a good file; the run panicked.
C6_Witness ==
    /\ pc = "exit"
    /\ failure = "panic"
    /\ listed = {N1, N4}
    /\ \A i \in 1..Len(csv_rows) : HasFields(csv_rows[i])
    /\ dir = dir0

(***************************************************************************)
(* C7.  Fail fast, no rollback: the step in which fs::rename returns an    *)
(* error ends the process with a failure, leaves the directory and the     *)
(* renames performed as they are, visits no further plan entry, and no     *)
(* step follows the exit.                                                  *)
(***************************************************************************)
C7_FailFastNoRollback ==
    [][ /\ pc # "exit"
        /\ n_os_errors' > n_os_errors =>
               /\ pc' = "exit"
               /\ failure' = "rename"
               /\ exit_code' # 0
               /\ dir' = dir
               /\ remaining' = remaining
               /\ n_renamed' = n_renamed
               /\ n_attempted' = n_renamed + 1
               /\ Cardinality(remaining') = Cardinality(DOMAIN renamings) - n_renamed' ]_vars

\* The second rename failed; the first stays performed.
C7_Witness ==
    /\ pc = "exit"
    /\ failure = "rename"
    /\ n_renamed = 1
    /\ n_attempted = 2
    /\ dir # dir0

(***************************************************************************)
(* C8.  Argument errors come first: without exactly two positional         *)
(* arguments, or with a second argument that is no directory, the process  *)
(* exits non-zero having listed nothing, opened nothing and renamed        *)
(* nothing; run is entered only with a validated directory.                *)
(***************************************************************************)
C8_ArgumentErrorsFirst ==
    /\ (pc # "main" /\ (args_len # 3 \/ ~dir_is_dir)) =>
           /\ pc = "exit"
           /\ exit_code # 0
           /\ steps = {}
           /\ n_attempted = 0
           /\ dir = dir0
    /\ (pc \notin {"main", "exit"} \/ steps # {}) => (args_len = 3 /\ dir_is_dir)

\* Two arguments, the second not a directory.
C8_Witness ==
    /\ pc = "exit"
    /\ args_len = 3
    /\ ~dir_is_dir
    /\ failure = "not a directory"

(***************************************************************************)
(* C9.  After a successful run that leaves no entry name prefixed by the   *)
(* inventory number of a row, the planner, called with the same rows on    *)
(* any listing of the directory, returns an empty plan.                    *)
(***************************************************************************)
C9_ReplanIsEmpty ==
    (Succeeded /\ \A f \in dir : MatchingRows(f) = {}) =>
        \A again \in Orders(dir) :
            LET r == determine_renamings(csv_rows, again)
            IN r.ok /\ DOMAIN r.val = {}

\* Two files were renamed and nothing in the directory matches any more.
C9_Witness ==
    /\ Succeeded
    /\ n_renamed = 2
    /\ Cardinality(dir) = 2
    /\ \A f \in dir : MatchingRows(f) = {}

(***************************************************************************)
(* C10.  The entry names after a fully successful run are the same for     *)
(* every order of the listing and every order in which the plan's pairs    *)
(* are iterated.                                                           *)
(***************************************************************************)
\* The directory after the plan's renames, all successful, in the given order.
RECURSIVE apply_in_order(_, _, _)
apply_in_order(d, plan, order) ==
    IF order = <<>>
    THEN d
    ELSE apply_in_order(fs_rename(d, Head(order), plan[Head(order)], TRUE).dir,
                        plan, Tail(order))

C10_OutcomeIndependentOfOrder ==
    Succeeded =>
        \A listing \in Orders(listed) :
            LET plan == determine_renamings(csv_rows, listing).val
            IN \A order \in Orders(DOMAIN plan) :
                   apply_in_order(dir0, plan, order) = dir

====
